---- MODULE Spec2Model ----
(***************************************************************************)
(* Baseball-Reference batting scrapers of pybaseball/team_batting.py:      *)
(* team_batting_bref (one team, a range of seasons) and                    *)
(* season_batting_bref (all teams, a range of seasons).                    *)
(*                                                                         *)
(* A text is a sequence of characters (one-character strings; a character *)
(* outside ASCII is the name of its code point), so that strip, replace,   *)
(* the substring test and split act on characters as they do in Python.    *)
(* A cell of an accumulated row is a text or the integer season; a cell of  *)
(* the table built from the rows may also be a float, None (the padding    *)
(* pandas gives a short row) or NaN (the padding in a float column).  An   *)
(* Optional value is a sequence of length at most one.  responses is the   *)
(* history of the pages session.get returned, one for each entry of        *)
(* fetched.                                                                *)
(***************************************************************************)
EXTENDS Integers, Sequences, FiniteSets

VARIABLES pc, fn, team, start_season, end_season, season, table, headings,
          raw_data, data, columns, error, fetched, responses, printed

vars == <<pc, fn, team, start_season, end_season, season, table, headings,
          raw_data, data, columns, error, fetched, responses, printed>>

\* ---------------------------------------------------------------- bounds
\* the seasons a call may name, and the body rows of a fetched table
FirstSeason == 2019
MaxSeasons == 2
MaxRows == 1

Seasons == FirstSeason .. (FirstSeason + MaxSeasons - 1)

\* ------------------------------------------------------- Optional, cells
None == <<>>
Some(x) == <<x>>

StrCell(t) == [kind |-> "str", text |-> t, num |-> 0]
IntCell(n) == [kind |-> "int", text |-> <<>>, num |-> n]
FloatCell(n) == [kind |-> "float", text |-> <<>>, num |-> n]
NoneCell == [kind |-> "none", text |-> <<>>, num |-> 0]
NaNCell == [kind |-> "nan", text |-> <<>>, num |-> 0]

\* pd.isna(cell)
isna(cell) == cell.kind \in {"none", "nan"}

StrCells(texts) == [i \in 1..Len(texts) |-> StrCell(texts[i])]

\* ------------------------------------------------------ Python built-ins
SetMin(S) == CHOOSE x \in S : \A y \in S : x <= y
SetMax(S) == CHOOSE x \in S : \A y \in S : x >= y

\* A character of a text is a one-character string when it is ASCII, and the
\* name of its code point ("U+00E9", "U+2003") when it is not, so that the
\* module is ASCII only and reads the same under every encoding.
\*
\* The characters str.isspace() holds for, which str.strip() removes: the
\* ASCII ones (tab, line feed, vertical tab, form feed, carriage return, the
\* separators U+001C..U+001F, space) and the Unicode ones.
Whitespace ==
    {"\t", "\n", "", "\f", "\r", "", "", "", "", " "} \cup
    {"U+0085", "U+00A0", "U+1680", "U+2000", "U+2001", "U+2002",
     "U+2003", "U+2004", "U+2005", "U+2006", "U+2007", "U+2008",
     "U+2009", "U+200A", "U+2028", "U+2029", "U+202F", "U+205F",
     "U+3000"}

\* str.strip(): the text between its first and last non-whitespace character
strip(s) ==
    LET keep == {i \in 1..Len(s) : s[i] \notin Whitespace}
    IN  IF keep = {} THEN <<>> ELSE SubSeq(s, SetMin(keep), SetMax(keep))

\* str.replace(old, '') for a one-character old
replace(s, old) == SelectSeq(s, LAMBDA c : c # old)

\* sub in s
contains(sub, s) ==
    \E i \in 0..(Len(s) - Len(sub)) : SubSeq(s, i + 1, i + Len(sub)) = sub

\* s.split(sep) for a one-character sep
RECURSIVE split(_, _)
split(s, sep) ==
    LET hits == {i \in 1..Len(s) : s[i] = sep}
    IN  IF hits = {} THEN <<s>>
        ELSE LET i == SetMin(hits)
             IN  <<SubSeq(s, 1, i - 1)>> \o split(SubSeq(s, i + 1, Len(s)), sep)

\* list.insert(i, x), i >= 0: past the end it appends
insert(list, i, x) ==
    LET k == IF i < Len(list) THEN i ELSE Len(list)
    IN  SubSeq(list, 1, k) \o <<x>> \o SubSeq(list, k + 1, Len(list))

\* list[a:b], 0 <= a <= b
slice(list, a, b) == SubSeq(list, a + 1, IF b < Len(list) THEN b ELSE Len(list))

\* [ele.text.strip() for ele in cells]
strip_all(cells) == [i \in 1..Len(cells) |-> strip(cells[i])]

\* ------------------------------------------------------------ pandas
\* pd.DataFrame(data=rows, columns=cols) of a list of lists: the table is as
\* wide as the longest row, shorter rows are padded with None, and a width
\* other than len(cols) is a ValueError.  No rows give an empty table.
\* Each column then gets its dtype: a column of integers and None becomes
\* float64 (the integers floats, None NaN); a column of integers stays
\* int64; a column with a text in it stays object, its cells as they are.
Width(rows) == SetMax({Len(rows[i]) : i \in 1..Len(rows)})

Pad(row, n) == [i \in 1..n |-> IF i <= Len(row) THEN row[i] ELSE NoneCell]

\* the column k of padded rows is converted to float64
IsFloatColumn(rows, k) ==
    /\ \A i \in 1..Len(rows) : rows[i][k].kind \in {"int", "none"}
    /\ \E i \in 1..Len(rows) : rows[i][k].kind = "int"
    /\ \E i \in 1..Len(rows) : rows[i][k].kind = "none"

\* the cell as its column's dtype holds it
Convert(rows, i, k) ==
    IF IsFloatColumn(rows, k)
    THEN (IF rows[i][k].kind = "int" THEN FloatCell(rows[i][k].num) ELSE NaNCell)
    ELSE rows[i][k]

DataFrame(rows, cols) ==
    IF rows = <<>> THEN [ok |-> TRUE, rows |-> <<>>]
    ELSE IF Width(rows) # Len(cols) THEN [ok |-> FALSE, rows |-> <<>>]
    ELSE LET padded == [i \in 1..Len(rows) |-> Pad(rows[i], Len(cols))]
         IN  [ok |-> TRUE,
              rows |-> [i \in 1..Len(rows) |->
                          [k \in 1..Len(cols) |-> Convert(padded, i, k)]]]

\* DataFrame.dropna(): the rows without a missing value
dropna(rows) ==
    SelectSeq(rows, LAMBDA r : \A i \in 1..Len(r) : ~isna(r[i]))

\* ------------------------------------------------ the pages that are fetched
\* A table is its header cells (th of the header row) and its body rows; a
\* body row is its th cells and its td cells, each cell its text.  A page
\* is the list of the tables the locator's query matches.
RECURSIVE SortedSeq(_)
SortedSeq(S) ==
    IF S = {} THEN <<>>
    ELSE LET m == SetMin(S) IN <<m>> \o SortedSeq(S \ {m})

SmallSubsets(n) == {S \in SUBSET (1..n) : Cardinality(S) <= MaxRows}

\* team page (teams/<team>/<season>.shtml): Rk and the 27 statistics
TeamHead ==
    << <<"R", "k">>, <<"P", "o", "s">>, <<"N", "a", "m", "e">>, <<"A", "g", "e">>, <<"G">>, <<"P", "A">>, <<"A", "B">>, <<"R">>, <<"H">>, <<"2", "B">>,
       <<"3", "B">>, <<"H", "R">>, <<"R", "B", "I">>, <<"S", "B">>, <<"C", "S">>, <<"B", "B">>, <<"S", "O">>, <<"B", "A">>, <<"O", "B", "P">>,
       <<"S", "L", "G">>, <<"O", "P", "S">>, <<"O", "P", "S", "+">>, <<"T", "B">>, <<"G", "D", "P">>, <<"H", "B", "P">>, <<"S", "H">>, <<"S", "F">>, <<"I", "B", "B">> >>

\* the Pos and Name cells a body row of a team page may show
TeamRoster ==
    << <<<<"C">>, <<"A", "l", "*">>>>,
       <<<<"\r", "\n", " ", "1", "B", "\t">>, <<"U+00A0", "#", "B", "o", "U+2003", "\f">>>>,
       <<<<>>, <<"T", "e", "a", "m", " ", "T", "o", "t", "a", "l", "s">>>>,
       <<<<>>, <<"R", "a", "n", "k", " ", "i", "n", " ", "1", "5", " ", "N", "L", " ", "t", "e", "a", "m", "s">>>>,
       <<<<>>, <<"A", "L", " ", "t", "e", "a", "m", "s">>>>,
       <<<<>>, <<"L", "e", "a", "g", "u", "e", " ", "A", "v", "e", "r", "a", "g", "e">>>> >>

TeamRow(k, w) ==
    [th |-> <<<<"1">>>>, tds |-> TeamRoster[k] \o [i \in 1..(w - 2) |-> <<"9">>]]

\* a team table of 27 statistics columns, or of one fewer (another layout)
TeamWidths == {Len(TeamHead) - 2, Len(TeamHead) - 1}

TeamTables ==
    {[head |-> SubSeq(TeamHead, 1, w + 1),
      body |-> [i \in 1..Len(SortedSeq(S)) |-> TeamRow(SortedSeq(S)[i], w)]] :
        w \in TeamWidths, S \in SmallSubsets(Len(TeamRoster))}

TeamPages == {<<>>} \cup {<<t>> : t \in TeamTables}

Teams == {"NYY"}

\* league page (leagues/majors/<season>-standard-batting.shtml)
LeagueHead == <<<<"t", "e", "a", "m", "_", "n", "a", "m", "e">>, <<"G">>, <<"P", "A">>, <<"R">>>>

\* team_name text, the link target of the name (if it has a link), first td
LeagueRoster ==
    << [name |-> <<"M", "e", "t", "s">>, href |-> Some(<<"/", "t", "e", "a", "m", "s", "/", "N", "Y", "M", "/", "2", "0", "1", "9", ".", "s", "h", "t", "m", "l">>), td |-> <<"9">>],
       [name |-> <<" ", "C", "u", "b", "s", "*", " ">>, href |-> Some(<<"/", "t", "e", "a", "m", "s", "/", "C", "H", "C", "/", "2", "0", "1", "9", ".", "s", "h", "t", "m", "l">>), td |-> <<" ", "3", "#", " ">>],
       [name |-> <<"L", "e", "a", "g", "u", "e", " ", "A", "v", "e", "r", "a", "g", "e">>, href |-> None, td |-> <<"4">>],
       [name |-> <<"T", "e", "a", "m", " ", "T", "o", "t", "a", "l", "s">>, href |-> Some(<<"/", "t", "e", "a", "m", "s", "/", "T", "O", "T", "/", "2", "0", "1", "9", ".", "s", "h", "t", "m", "l">>), td |-> <<"7">>],
       [name |-> <<"N", "L", " ", "t", "e", "a", "m", "s">>, href |-> None, td |-> <<"5">>],
       [name |-> <<"R", "e", "d", "s">>, href |-> Some(<<"C", "I", "N">>), td |-> <<"6">>] >>

LeagueRow(k, w) ==
    [team_name |-> Some(LeagueRoster[k].name),
     href |-> LeagueRoster[k].href,
     tds |-> <<LeagueRoster[k].td>> \o [i \in 1..(w - 1) |-> <<"9">>]]

LeagueWidths == {1, 2}

LeagueTables ==
    {[head |-> SubSeq(LeagueHead, 1, w + 1),
      body |-> [i \in 1..Len(SortedSeq(S)) |-> LeagueRow(SortedSeq(S)[i], w)]] :
        w \in LeagueWidths, S \in SmallSubsets(Len(LeagueRoster))}

LeaguePages == {<<>>} \cup {<<t>> : t \in LeagueTables}

\* the calls: start_season and end_season are Optional[int]
OptSeasons == {None} \cup {Some(y) : y \in Seasons}

\* ------------------------------------------------------- team_batting_bref
\* table.find_all('th'): the header cells, then the th of every body row
find_all_th(tbl) ==
    LET RECURSIVE body_th(_)
        body_th(rows) ==
            IF rows = <<>> THEN <<>> ELSE rows[1].th \o body_th(Tail(rows))
    IN  tbl.head \o body_th(tbl.body)

\* table.find_all('tr'), each row by its td cells: the header row has none
find_all_tr(tbl) ==
    <<<<>>>> \o [i \in 1..Len(tbl.body) |-> tbl.body[i].tds]

HeadingStart == 1
HeadingStop == 28
YearIndex == 2

\* line 46
team_headings(tbl) ==
    strip_all(slice(find_all_th(tbl), HeadingStart, HeadingStop))

\* line 52
strip_decoration(col) == replace(replace(col, "*"), "#")

\* line 53: the cell is kept
keep_col(col) ==
    /\ ~contains(<<"T", "o", "t", "a", "l", "s">>, col)
    /\ ~contains(<<"N", "L", " ", "t", "e", "a", "m", "s">>, col)
    /\ ~contains(<<"A", "L", " ", "t", "e", "a", "m", "s">>, col)

\* lines 50-55: the row accumulated for one tr
team_cols(tds, s) ==
    LET stripped == strip_all(tds)
        cleaned == [i \in 1..Len(stripped) |-> strip_decoration(stripped[i])]
        kept == SelectSeq(cleaned, keep_col)
    IN  insert(StrCells(kept), YearIndex, IntCell(s))

\* lines 48-55
team_rows(tbl, s) ==
    LET trs == find_all_tr(tbl)
    IN  [i \in 1..Len(trs) |-> team_cols(trs[i], s)]

\* line 58
team_final_headings(h) == insert(h, YearIndex, <<"Y", "e", "a", "r">>)

\* ----------------------------------------------------- season_batting_bref
\* line 97: the data-stat of every th of the thead
league_headings(tbl) == tbl.head

\* lines 101-115 for one row of the tbody: the row accumulated, a skip
\* (League Average), or the exception the row raises
league_cols(row, s) ==
    IF row.team_name = None
    THEN [out |-> "raise", error |-> "AttributeError", cols |-> <<>>]
    ELSE LET team_name == strip(row.team_name[1]) IN
         IF team_name = <<"L", "e", "a", "g", "u", "e", " ", "A", "v", "e", "r", "a", "g", "e">>
         THEN [out |-> "skip", error |-> "", cols |-> <<>>]
         ELSE IF row.href = None
         THEN [out |-> "raise", error |-> "AttributeError", cols |-> <<>>]
         ELSE LET parts == split(row.href[1], "/") IN
              IF Len(parts) < 3
              THEN [out |-> "raise", error |-> "IndexError", cols |-> <<>>]
              ELSE [out |-> "row", error |-> "",
                    cols |-> <<IntCell(s), StrCell(parts[3]), StrCell(team_name)>>
                             \o StrCells(strip_all(row.tds))]

\* lines 99-115: the rows accumulated from one tbl, up to the row that raises
RECURSIVE league_rows(_, _)
league_rows(rows, s) ==
    IF rows = <<>> THEN [error |-> "", rows |-> <<>>]
    ELSE LET r == league_cols(rows[1], s) IN
         IF r.out = "raise" THEN [error |-> r.error, rows |-> <<>>]
         ELSE LET rest == league_rows(Tail(rows), s)
              IN  [error |-> rest.error,
                   rows |-> (IF r.out = "row" THEN <<r.cols>> ELSE <<>>) \o rest.rows]

\* line 120
league_final_headings(h) ==
    <<<<"s", "e", "a", "s", "o", "n">>, <<"t", "e", "a", "m", "_", "a", "b", "b", "r", "e", "v">>, <<"t", "e", "a", "m", "_", "n", "a", "m", "e">>>> \o slice(h, 1, Len(h))

\* line 122: the result of dropna() is not assigned
league_cleanup(rows) == rows

\* line 60
team_cleanup(rows) == dropna(rows)

\* -------------------------------------------------------------- the state
Init ==
    /\ pc = "idle"
    /\ fn = ""
    /\ team = ""
    /\ start_season = None
    /\ end_season = None
    /\ season = 0
    /\ table = None
    /\ headings = None
    /\ raw_data = <<>>
    /\ data = <<>>
    /\ columns = <<>>
    /\ error = ""
    /\ fetched = <<>>
    /\ responses = <<>>
    /\ printed = <<>>

\* the argument check passes a missing start_season when end_season is
\* given; range(None, ...) is then the TypeError of the loop header
Enter_mut(f, t, st, en) ==
    /\ pc = "idle"
    /\ fn' = f
    /\ team' = t
    /\ start_season' = st
    /\ UNCHANGED <<table, headings, raw_data, data, columns, fetched,
                   responses, printed>>
    /\ IF st = None
       THEN /\ pc' = "raised"
            /\ error' = (IF en = None THEN "ValueError" ELSE "TypeError")
            /\ UNCHANGED <<end_season, season>>
       ELSE /\ pc' = "loop"
            /\ end_season' = (IF en = None THEN st ELSE en)
            /\ season' = st[1]
            /\ UNCHANGED error

\* lines 26-36 and 73-83: the argument check, the default of end_season, and
\* the empty accumulator; range(start_season, end_season + 1) starts
Enter(f, t, st, en) ==
    /\ pc = "idle"
    /\ fn' = f
    /\ team' = t
    /\ start_season' = st
    /\ UNCHANGED <<table, headings, raw_data, data, columns, fetched,
                   responses, printed>>
    /\ IF st = None
       THEN /\ pc' = "raised"
            /\ error' = "ValueError"
            /\ UNCHANGED <<end_season, season>>
       ELSE /\ pc' = "loop"
            /\ end_season' = (IF en = None THEN st ELSE en)
            /\ season' = st[1]
            /\ UNCHANGED error

\* range(start_season, end_season): the last season is left out
LoopDone_mut == season >= end_season[1]

\* lines 37 and 85: range(start_season, end_season + 1) is exhausted
LoopDone == season > end_season[1]

team_batting_bref ==
    \E t \in Teams, st \in OptSeasons, en \in OptSeasons :
        Enter("team_batting_bref", t, st, en)

season_batting_bref ==
    \E st \in OptSeasons, en \in OptSeasons :
        Enter("season_batting_bref", "", st, en)

\* session.get(url): the request and the page it returned are recorded
Get(site, page) ==
    /\ fetched' = Append(fetched, [site |-> site, team |-> team, season |-> season])
    /\ responses' = Append(responses, page)

\* lines 37-55: one pass of the season loop of team_batting_bref
TeamSeason ==
    /\ pc = "loop"
    /\ fn = "team_batting_bref"
    /\ ~LoopDone
    /\ printed' = Append(printed, [msg |-> "Getting Batting Data", season |-> season])
    /\ \E page \in TeamPages :
        /\ Get("teams", page)
        /\ table' = page
        /\ IF page = <<>>
           THEN /\ pc' = "raised"
                /\ error' = "IndexError"
                /\ UNCHANGED <<season, headings, raw_data>>
           ELSE /\ headings' = (IF headings = None
                                  THEN Some(team_headings(page[1])) ELSE headings)
                /\ raw_data' = raw_data \o team_rows(page[1], season)
                /\ season' = season + 1
                /\ UNCHANGED <<pc, error>>
    /\ UNCHANGED <<fn, team, start_season, end_season, data, columns>>

\* lines 57-62: the table is assembled and cleaned
TeamReturn ==
    /\ pc = "loop"
    /\ fn = "team_batting_bref"
    /\ LoopDone
    /\ IF headings = None
       THEN /\ pc' = "raised"
            /\ error' = "AssertionError"
            /\ UNCHANGED <<headings, data, columns>>
       ELSE LET h == team_final_headings(headings[1])
                df == DataFrame(raw_data, h)
            IN  /\ headings' = Some(h)
                /\ IF df.ok
                   THEN /\ pc' = "returned"
                        /\ data' = team_cleanup(df.rows)
                        /\ columns' = h
                        /\ UNCHANGED error
                   ELSE /\ pc' = "raised"
                        /\ error' = "ValueError"
                        /\ UNCHANGED <<data, columns>>
    /\ UNCHANGED <<fn, team, start_season, end_season, season, table,
                   raw_data, fetched, responses, printed>>

\* lines 85-115: one pass of the season loop of season_batting_bref
LeagueSeason ==
    /\ pc = "loop"
    /\ fn = "season_batting_bref"
    /\ ~LoopDone
    /\ \E page \in LeaguePages :
        /\ Get("leagues", page)
        /\ table' = page
        /\ IF page = <<>>
           THEN /\ printed' = printed \o
                       <<[msg |-> "Getting per-team batting data", season |-> season],
                         [msg |-> "Table not found", season |-> season]>>
                /\ season' = season + 1
                /\ UNCHANGED <<pc, error, headings, raw_data>>
           ELSE LET got == league_rows(page[1].body, season) IN
                /\ printed' = Append(printed,
                       [msg |-> "Getting per-team batting data", season |-> season])
                /\ headings' = (IF headings = None
                                  THEN Some(league_headings(page[1])) ELSE headings)
                /\ raw_data' = raw_data \o got.rows
                /\ IF got.error = ""
                   THEN /\ season' = season + 1
                        /\ UNCHANGED <<pc, error>>
                   ELSE /\ pc' = "raised"
                        /\ error' = got.error
                        /\ UNCHANGED season
    /\ UNCHANGED <<fn, team, start_season, end_season, data, columns>>

\* lines 118-124
LeagueReturn ==
    /\ pc = "loop"
    /\ fn = "season_batting_bref"
    /\ LoopDone
    /\ IF headings = None
       THEN /\ pc' = "raised"
            /\ error' = "AssertionError"
            /\ UNCHANGED <<headings, data, columns>>
       ELSE LET h == league_final_headings(headings[1])
                df == DataFrame(raw_data, h)
            IN  /\ headings' = Some(h)
                /\ IF df.ok
                   THEN /\ pc' = "returned"
                        /\ data' = league_cleanup(df.rows)
                        /\ columns' = h
                        /\ UNCHANGED error
                   ELSE /\ pc' = "raised"
                        /\ error' = "ValueError"
                        /\ UNCHANGED <<data, columns>>
    /\ UNCHANGED <<fn, team, start_season, end_season, season, table,
                   raw_data, fetched, responses, printed>>

Next ==
    \/ team_batting_bref
    \/ season_batting_bref
    \/ TeamSeason
    \/ TeamReturn
    \/ LeagueSeason
    \/ LeagueReturn

Spec == Init /\ [][Next]_vars

\* ------------------------------------------------------------ the claims
IsTeam == fn = "team_batting_bref"
IsLeague == fn = "season_batting_bref"
Returned == pc = "returned"
Raised == pc = "raised"

\* the season a row carries: its number cell (an integer, or the float of
\* the same value in a float64 column)
SeasonCells(row) == {i \in 1..Len(row) : row[i].kind \in {"int", "float"}}
SeasonOf(row) == row[SetMin(SeasonCells(row))].num

Site == IF IsTeam THEN "teams" ELSE "leagues"

\* C1: with start_season <= end_season the pages are requested one per
\* season, in ascending order from start_season, and the table returned
\* holds only rows of the seasons start_season..end_season, the rows of an
\* earlier season before those of a later one.
C1_SeasonOrder ==
    (pc \in {"loop", "returned", "raised"} /\ start_season # None
        /\ start_season[1] <= end_season[1]) =>
    /\ fetched = [i \in 1..Len(fetched) |->
                    [site |-> Site, team |-> team, season |-> start_season[1] + i - 1]]
    /\ Len(fetched) <= end_season[1] - start_season[1] + 1
    /\ Returned =>
        /\ Len(fetched) = end_season[1] - start_season[1] + 1
        /\ \A i \in 1..Len(data) :
            /\ Cardinality(SeasonCells(data[i])) = 1
            /\ SeasonOf(data[i]) \in start_season[1]..end_season[1]
        /\ \A i, j \in 1..Len(data) :
            i < j => SeasonOf(data[i]) <= SeasonOf(data[j])

\* a table of two seasons is returned, rows of both in it
C1_Witness ==
    /\ Returned
    /\ \E i, j \in 1..Len(data) : SeasonOf(data[i]) < SeasonOf(data[j])

\* C6: a call with start_season = None ends in ValueError at once: nothing
\* was requested and no row was accumulated.
C6_NoneStartRaises ==
    (pc # "idle" /\ start_season = None) =>
        /\ Raised
        /\ error = "ValueError"
        /\ fetched = <<>>
        /\ raw_data = <<>>
        /\ data = <<>>

\* season_batting_bref(None, end_season) has raised
C6_Witness ==
    /\ IsLeague
    /\ Raised
    /\ start_season = None
    /\ error = "ValueError"

\* C2: at the return every accumulated row has exactly as many fields as
\* the final heading list, so that no row of the table returned is one that
\* was padded or cut: a call that accumulated a row of another length ended
\* in an error.
C2_AccumulatedRowsFull ==
    Returned =>
        \A i \in 1..Len(raw_data) : Len(raw_data[i]) = Len(columns)

NotFound == SelectSeq(printed, LAMBDA p : p.msg = "Table not found")

\* C3: in season_batting_bref a page without the table is skipped: the
\* notice is printed and the loop goes on to the next season; and when no
\* season of the range has a table the call returns an empty table.
C3_MissingTableNotFatal ==
    /\ (IsLeague /\ pc = "loop" /\ fetched # <<>> /\ table = None) =>
        /\ season = fetched[Len(fetched)].season + 1
        /\ printed[Len(printed)] =
               [msg |-> "Table not found", season |-> fetched[Len(fetched)].season]
    /\ (IsLeague /\ pc \in {"returned", "raised"} /\ start_season # None
            /\ start_season[1] <= end_season[1]
            /\ Len(NotFound) = end_season[1] - start_season[1] + 1) =>
        /\ Returned
        /\ data = <<>>

Markers == {<<"T", "e", "a", "m", " ", "T", "o", "t", "a", "l", "s">>, <<"N", "L", " ", "t", "e", "a", "m", "s">>, <<"A", "L", " ", "t", "e", "a", "m", "s">>, <<"L", "e", "a", "g", "u", "e", " ", "A", "v", "e", "r", "a", "g", "e">>}

\* the team-name field of a returned row: Name of a team page, team_name
\* of a league page
NameField(row) == IF IsTeam THEN row[2] ELSE row[3]

\* C4: no row of a table returned has an aggregate marker as its name.
C4_NoAggregateRows ==
    Returned =>
        \A i \in 1..Len(data) : NameField(data[i]).text \notin Markers

HasDecoration(row) ==
    \E i \in 1..Len(row) :
        \E k \in 1..Len(row[i].text) : row[i].text[k] \in {"*", "#"}

\* C5: no cell of an accumulated row or of a row returned holds '*' or '#'.
C5_NoDecoration ==
    /\ \A i \in 1..Len(raw_data) : ~HasDecoration(raw_data[i])
    /\ \A i \in 1..Len(data) : ~HasDecoration(data[i])

Clean(td) == strip_decoration(strip(td))

\* the tr of the team pages fetched up to the n-th, in order, each with the
\* season of its page: the tr the accumulated rows came from, one each
RECURSIVE TeamSources(_)
TeamSources(n) ==
    IF n = 0 THEN <<>>
    ELSE LET trs == find_all_tr(responses[n][1])
         IN  TeamSources(n - 1) \o
                 [j \in 1..Len(trs) |-> [tds |-> trs[j], season |-> fetched[n].season]]

\* the tr of the tbody of the league pages fetched up to the n-th that are
\* not the League Average, in order, each with the season of its page
RECURSIVE LeagueSources(_)
LeagueSources(n) ==
    IF n = 0 THEN <<>>
    ELSE LET body == IF responses[n] = None THEN <<>> ELSE responses[n][1].body
             trs == SelectSeq(body, LAMBDA row :
                        strip(row.team_name[1]) # <<"L", "e", "a", "g", "u", "e", " ", "A", "v", "e", "r", "a", "g", "e">>)
         IN  LeagueSources(n - 1) \o
                 [j \in 1..Len(trs) |-> [row |-> trs[j], season |-> fetched[n].season]]

\* the tr the rows of the table returned by team_batting_bref came from: the
\* rows returned are the accumulated rows that needed no padding
TeamOrigins ==
    LET src == TeamSources(Len(responses))
        full == {k \in 1..Len(raw_data) : Len(raw_data[k]) = Len(columns)}
    IN  [i \in 1..Cardinality(full) |-> src[SortedSeq(full)[i]]]

\* the first table located in the call
FirstTable == responses[SetMin({n \in 1..Len(responses) : responses[n] # None})][1]

C7_Team ==
    (Returned /\ IsTeam) =>
        /\ SubSeq(columns, 1, 3) =
               SubSeq(team_headings(FirstTable), 1, 2) \o <<<<"Y", "e", "a", "r">>>>
        /\ Len(data) = Len(TeamOrigins)
        /\ \A i \in 1..Len(data) :
            LET tr == TeamOrigins[i] IN
            /\ Len(tr.tds) >= 2
            /\ data[i][1] = StrCell(Clean(tr.tds[1]))
            /\ data[i][2] = StrCell(Clean(tr.tds[2]))
            /\ data[i][3].kind \in {"int", "float"}
            /\ data[i][3].num = tr.season

C7_League ==
    (Returned /\ IsLeague) =>
        /\ columns = <<<<"s", "e", "a", "s", "o", "n">>, <<"t", "e", "a", "m", "_", "a", "b", "b", "r", "e", "v">>, <<"t", "e", "a", "m", "_", "n", "a", "m", "e">>>> \o
                         Tail(league_headings(FirstTable))
        /\ Len(data) = Len(LeagueSources(Len(responses)))
        /\ \A i \in 1..Len(data) :
            LET tr == LeagueSources(Len(responses))[i] IN
            /\ data[i][1].kind \in {"int", "float"}
            /\ data[i][1].num = tr.season
            /\ tr.row.href # None
            /\ data[i][2] = StrCell(split(tr.row.href[1], "/")[3])
            /\ data[i][3] = StrCell(strip(tr.row.team_name[1]))
            /\ Len(data[i]) >= 3 + Len(tr.row.tds)
            /\ SubSeq(data[i], 4, 3 + Len(tr.row.tds)) =
                   StrCells(strip_all(tr.row.tds))

\* C7: the derived columns sit at their fixed place in the headings and in
\* the rows.  In the table team_batting_bref returns the third heading is
\* "Year", after the first two headings of the table, and the third field
\* of every row is the season of the page the row came from, after the
\* first two td cells (trimmed, without decoration) of the tr it came from.
\* In the table season_batting_bref returns the headings are season,
\* team_abbrev, team_name and then the headings of the table without the
\* first, and every row is the season of its page, the abbreviation in the
\* link of its tr, the team name of its tr, and then the td cells of its tr
\* in order.
C7_DerivedColumns == C7_Team /\ C7_League

\* C8: when a page of team_batting_bref has no statistics table the call
\* ends there in a TableNotFound error: nothing later is requested and no
\* table is returned.
C8_TeamTableNotFound ==
    (IsTeam /\ fetched # <<>> /\ table = None) =>
        /\ Raised
        /\ error = "TableNotFound"
        /\ data = <<>>
        /\ Len(fetched) = season - start_season[1] + 1

\* C9: no row of a table returned has a missing value.
C9_NoMissingValues ==
    Returned =>
        \A i \in 1..Len(data) :
            \A k \in 1..Len(data[i]) : ~isna(data[i][k])

Resolve(tbl) == IF IsTeam THEN team_headings(tbl) ELSE league_headings(tbl)

Final(h) == IF IsTeam THEN team_final_headings(h) ELSE league_final_headings(h)

\* C10: within a call the headings are resolved at most once, from the
\* first table located, and stay as they are while the loop runs; a later
\* table that resolves to other headings is not accepted in silence: the
\* call does not return a table whose headings the last table located
\* does not resolve to.
C10_HeadingsOnce ==
    [][/\ (pc = "loop" /\ ~LoopDone) =>
            /\ (headings = None /\ table' = None) => headings' = None
            /\ (headings = None /\ table' # None) =>
                    headings' = Some(Resolve(table'[1]))
            /\ headings # None => headings' = headings
       /\ (Returned' /\ table' # None) =>
            columns' = Final(Resolve(table'[1]))]_vars

====
